---- MODULE Spec2Model ----
(***************************************************************************)
(* A model of the taskers kanban boards.                                   *)
(*                                                                         *)
(*   KanbanBoard (kanban_board.rs) driven by run_app (ui.rs): a flat list  *)
(*   of tasks, each carrying its status, plus two cursor indices.          *)
(*   KanbanApp (main.rs): a list of columns, each owning its tasks, plus   *)
(*   a column cursor and an optional task cursor.                          *)
(*   Its CSV export and import (chatgpt.rs): save_to_csv, load_from_csv.   *)
(*                                                                         *)
(* Indices are 0-based as in the Rust code; TLA+ sequences are 1-based, so *)
(* element i of a Vec v is v[i + 1].  An Option<T> is a sequence of length *)
(* 0 (None) or 1 (Some).                                                   *)
(***************************************************************************)
EXTENDS Integers, Sequences, FiniteSets, TLC

\* ------------------------------------------------------------- bounds
MaxTasks == 3        \* tasks on a KanbanBoard
MaxSelected == 3     \* cap of a cursor index that the code lets grow without limit
MaxColumns == 2      \* length of a configured column list (the default has 3)
MaxAppTasks == 2     \* tasks in a KanbanApp

\* what the user types at the prompts, and what the clock says
Descriptions == {"d1"}
DueDates == {"2026-12-31"}
Dates == {"2026-11-05"}

\* kanban_config.json, when it exists and parses: any list of column names
ColumnNames == {"Todo", "Doing", "Done"}
\* what the user types at KanbanApp's prompts, and the clock (seconds, nanoseconds)
Titles == {"t1"}
AppDescriptions == {""}
TagLists == {<<"doc">>}
DueInputs == {"", "2026-12-31"}
Instants == {[secs |-> 100, nanos |-> 5]}

\* ------------------------------------------------------------- state
VARIABLES
    tasks,            \* KanbanBoard.tasks
    selected_status,  \* KanbanBoard.selected_status
    selected_task,    \* KanbanBoard.selected_task
    file,             \* the file kanban_board.json
    pc,               \* the process driving the KanbanBoard: "run", "panicked" or "quit"
    overflow_checks,  \* build profile, once an overflow has shown it: "on" (overflow
                      \* panics, debug), "off" (it wraps, release), else "unobserved"
    program,          \* which binary runs: "board" (KanbanBoard) or "app" (KanbanApp)
    columns,          \* KanbanApp.columns
    selected_column,  \* KanbanApp.selected_column
    app_selected_task,\* KanbanApp.selected_task : Option<usize>
    lastOp,           \* history: the operation that produced this state
    scenario,         \* history: steps of Scenario the run since new() has followed
    prevTasks,        \* history: KanbanBoard.tasks before the last operation, if a move_task
    savedTasks,       \* history: Some(tasks at the last successful save), else None
    csv,              \* the content of .kanban.csv
    loaded            \* what the last call of load_from_csv returned, else None

boardVars == <<tasks, selected_status, selected_task>>
appVars == <<columns, selected_column, app_selected_task>>
envVars == <<program>>
buildVars == <<program, overflow_checks>>
vars == <<tasks, selected_status, selected_task, file, pc, overflow_checks,
          program, columns, selected_column, app_selected_task,
          lastOp, scenario, prevTasks, savedTasks, csv, loaded>>
csvVars == <<csv, loaded>>

\* ------------------------------------------------------------- helpers
None == <<>>
Some(x) == <<x>>

statuses == <<"TODO", "DOING", "DONE">>

StatusAt(i) == statuses[i + 1]

\* isize::clamp(min, max)
Clamp(x, lo, hi) == IF x < lo THEN lo ELSE IF x > hi THEN hi ELSE x

\* usize values: a non-negative number stands for itself, a negative number v
\* for 2^64 + v (the top of the range, reached only by wrapping around).
UsizeSubWraps(a, b) == a < b
\* the builds a wrapping subtraction can still turn out to run under
Profiles(seen) == IF seen = "unobserved" THEN {"on", "off"} ELSE {seen}
UsizeSub(a, b) == a - b
UsizeLess(a, b) ==
    IF (a >= 0) = (b >= 0) THEN a < b ELSE a >= 0

\* Vec<&Task> of the tasks whose status is `status`, in board order
GetTasksByStatus(ts, status) == SelectSeq(ts, LAMBDA t : t.status = status)

\* Iterator::find: 1-based position of the first task with that status, 0 if none
FindFirst(ts, status) ==
    IF \E i \in 1..Len(ts) : ts[i].status = status
    THEN CHOOSE i \in 1..Len(ts) :
            /\ ts[i].status = status
            /\ \A j \in 1..(i - 1) : ts[j].status # status
    ELSE 0

\* a bug: the id counts the tasks of the first column only
NewTaskIdPerColumn(ts) == Len(GetTasksByStatus(ts, "TODO")) + 1

\* self.tasks.len() as u32 + 1 (the cast truncates only from 2^32 tasks on)
NewTaskId(ts) == Len(ts) + 1

\* a bug: the column name of the other binary's default configuration
NewTaskStatusOfConfig == "Todo"

NewTaskStatus == "TODO"

NewTask(ts, description, created_at, due_date) ==
    [id |-> NewTaskId(ts), description |-> description, created_at |-> created_at,
     due_date |-> due_date, status |-> NewTaskStatus]

\* a bug: the destination index wraps around instead of being clamped
NewStatusIndexWrapping(sel, direction) == (sel + direction) % Len(statuses)

NewStatusIndex(sel, direction) == Clamp(sel + direction, 0, Len(statuses) - 1)

\* a bug: every task of the selected column is moved, not the first one found
MovedTasksWholeColumn(ts, sel, direction) ==
    [i \in 1..Len(ts) |->
        IF ts[i].status = StatusAt(sel)
        THEN [ts[i] EXCEPT !.status = StatusAt(NewStatusIndex(sel, direction))]
        ELSE ts[i]]

\* a bug: a task moved forward from the last column leaves the board
MovedTasksArchivingDone(ts, sel, direction) ==
    LET i == FindFirst(ts, StatusAt(sel)) IN
    IF i = 0 THEN ts
    ELSE IF sel + direction > Len(statuses) - 1
    THEN SubSeq(ts, 1, i - 1) \o SubSeq(ts, i + 1, Len(ts))
    ELSE [ts EXCEPT ![i].status = StatusAt(NewStatusIndex(sel, direction))]

MovedTasks(ts, sel, direction) ==
    LET i == FindFirst(ts, StatusAt(sel)) IN
    IF i = 0 THEN ts
    ELSE [ts EXCEPT ![i].status = StatusAt(NewStatusIndex(sel, direction))]

\* ------------------------------------------------------------- persistence
\* The file kanban_board.json: absent, text that is no JSON list of tasks, or a
\* JSON array of objects; an object is the sequence of its members
\* <<name, kind of JSON value, value>> in the order they were written.
NoFile == [kind |-> "absent", items |-> <<>>]
Garbage == [kind |-> "garbage", items |-> <<>>]

\* a bug: a field left out of the serialized form (#[serde(skip_serializing)])
TaskToJsonSkippingDueDate(t) ==
    << <<"id", "number", t.id>>,
       <<"description", "string", t.description>>,
       <<"created_at", "string", t.created_at>>,
       <<"status", "string", t.status>> >>

\* #[derive(Serialize)] for Task: one member per field, in declaration order
TaskToJson(t) ==
    << <<"id", "number", t.id>>,
       <<"description", "string", t.description>>,
       <<"created_at", "string", t.created_at>>,
       <<"due_date", "string", t.due_date>> ,
       <<"status", "string", t.status>> >>

\* serde_json::to_string_pretty(&self.tasks)
ToJson(ts) == [kind |-> "json", items |-> [i \in 1..Len(ts) |-> TaskToJson(ts[i])]]

Members(obj, name) == {i \in 1..Len(obj) : obj[i][1] = name}

HasField(obj, name, kind) ==
    /\ Cardinality(Members(obj, name)) = 1
    /\ \A i \in Members(obj, name) : obj[i][2] = kind

FieldOf(obj, name) == obj[CHOOSE i \in Members(obj, name) : TRUE][3]

\* #[derive(Deserialize)] for Task: every field present once, with the right type
TaskParses(obj) ==
    /\ HasField(obj, "id", "number")
    /\ HasField(obj, "description", "string")
    /\ HasField(obj, "created_at", "string")
    /\ HasField(obj, "due_date", "string")
    /\ HasField(obj, "status", "string")

TaskFromJson(obj) ==
    [id |-> FieldOf(obj, "id"), description |-> FieldOf(obj, "description"),
     created_at |-> FieldOf(obj, "created_at"), due_date |-> FieldOf(obj, "due_date"),
     status |-> FieldOf(obj, "status")]

\* a bug: a content that does not parse leaves the tasks as they are
FromJsonKeepingTasks(f) ==
    IF f.kind = "json" /\ \A i \in 1..Len(f.items) : TaskParses(f.items[i])
    THEN [i \in 1..Len(f.items) |-> TaskFromJson(f.items[i])]
    ELSE tasks

\* serde_json::from_str(&data).unwrap_or_else(|_| Vec::new())
FromJson(f) ==
    IF f.kind = "json" /\ \A i \in 1..Len(f.items) : TaskParses(f.items[i])
    THEN [i \in 1..Len(f.items) |-> TaskFromJson(f.items[i])]
    ELSE <<>>

\* self.tasks after load_from_file has read the file
LoadedTasks(f) == FromJson(f)

\* .kanban.csv does not exist
NoCsv == [kind |-> "absent", header |-> <<>>, rows |-> <<>>]

\* ------------------------------------------------------------- history
\* the operations of the scenario that starts on the empty board of new()
Scenario == <<"add_task", "move_forward", "move_forward", "move_forward">>

\* scenario = n >= 0: the operations since new() are exactly the first n of
\* Scenario; scenario = -1: they are not
Log(op) ==
    /\ lastOp' = op
    /\ scenario' = IF /\ scenario >= 0
                      /\ scenario < Len(Scenario)
                      /\ Scenario[scenario + 1] = op
                   THEN scenario + 1 ELSE -1
    /\ prevTasks' = IF op \in {"move_forward", "move_backward"} THEN tasks ELSE <<>>

\* ------------------------------------------------------------- KanbanBoard
\* KanbanBoard::new()
BoardNew ==
    /\ program = "board"
    /\ tasks = <<>>
    /\ selected_status = 0
    /\ selected_task = 0
    /\ pc = "run"
    /\ overflow_checks = "unobserved"
    /\ columns = <<>>
    /\ selected_column = 0
    /\ app_selected_task = None
    /\ lastOp = "new"
    /\ scenario = 0
    /\ prevTasks = <<>>
    /\ savedTasks = None
    /\ csv = NoCsv
    /\ loaded = None

InitBoard == BoardNew /\ file = NoFile

\* kanban_board.json may be left over from anything
InitPersist == BoardNew /\ file \in {NoFile, Garbage}

BoardRuns == program = "board" /\ pc = "run"

\* run_app, KeyCode::Char('a'): both prompts answered, then board.add_task
AddTask ==
    /\ BoardRuns
    /\ Len(tasks) < MaxTasks
    /\ \E description \in Descriptions, due_date \in DueDates, created_at \in Dates :
          tasks' = Append(tasks, NewTask(tasks, description, created_at, due_date))
    /\ Log("add_task")
    /\ UNCHANGED <<selected_status, selected_task, file, pc, buildVars, appVars, savedTasks, csvVars>>

\* run_app, KeyCode::Char('a'): a prompt returned None, add_task is not called
PromptFailed ==
    /\ BoardRuns
    /\ Log("prompt_failed")
    /\ UNCHANGED <<boardVars, file, pc, buildVars, appVars, savedTasks, csvVars>>

\* run_app, KeyCode::Char('q'): run_app returns Ok(()) and writes nothing
KeyQ ==
    /\ BoardRuns
    /\ pc' = "quit"
    /\ Log("key_q")
    /\ UNCHANGED <<boardVars, file, buildVars, appVars, savedTasks, csvVars>>

\* run_app, KeyCode::Left
KeyLeft ==
    /\ BoardRuns
    /\ selected_status' = IF selected_status > 0 THEN selected_status - 1
                          ELSE selected_status
    /\ Log("key_left")
    /\ UNCHANGED <<tasks, selected_task, file, pc, buildVars, appVars, savedTasks, csvVars>>

KeyRightGuard(sel) == sel < Len(statuses) - 1

\* run_app, KeyCode::Right
KeyRight ==
    /\ BoardRuns
    /\ selected_status' = IF KeyRightGuard(selected_status) THEN selected_status + 1
                          ELSE selected_status
    /\ Log("key_right")
    /\ UNCHANGED <<tasks, selected_task, file, pc, buildVars, appVars, savedTasks, csvVars>>

\* run_app, KeyCode::Up
KeyUp ==
    /\ BoardRuns
    /\ selected_task' = IF selected_task > 0 THEN selected_task - 1 ELSE selected_task
    /\ Log("key_up")
    /\ UNCHANGED <<tasks, selected_status, file, pc, buildVars, appVars, savedTasks, csvVars>>

\* a bug: the guard compares with max_tasks instead of max_tasks - 1
KeyDownGuardOffByOne(sel, max_tasks) == UsizeLess(sel, max_tasks)

KeyDownGuard(sel, max_tasks) == UsizeLess(sel, UsizeSub(max_tasks, 1))

\* run_app, KeyCode::Down: max_tasks - 1 is usize arithmetic; wrapped around it
\* is usize::MAX, which no selected_task reaches
KeyDown ==
    /\ BoardRuns
    /\ LET max_tasks == Len(GetTasksByStatus(tasks, StatusAt(selected_status))) IN
       IF UsizeSubWraps(max_tasks, 1)
       THEN \E profile \in Profiles(overflow_checks) :
               /\ overflow_checks' = profile
               /\ IF profile = "on"
                  THEN pc' = "panicked" /\ UNCHANGED selected_task
                  ELSE /\ UNCHANGED pc
                       /\ selected_task < MaxSelected
                       /\ selected_task' = selected_task + 1
       ELSE /\ UNCHANGED <<pc, overflow_checks>>
            /\ selected_task' = IF KeyDownGuard(selected_task, max_tasks)
                                THEN selected_task + 1 ELSE selected_task
    /\ Log("key_down")
    /\ UNCHANGED <<tasks, selected_status, file, envVars, appVars, savedTasks, csvVars>>

\* KanbanBoard::move_task(direction)
MoveTask(direction) ==
    /\ BoardRuns
    /\ tasks' = MovedTasks(tasks, selected_status, direction)
    /\ Log(IF direction = 1 THEN "move_forward" ELSE "move_backward")
    /\ UNCHANGED <<selected_status, selected_task, file, pc, buildVars, appVars,
                   savedTasks, csvVars>>

\* run_app, KeyCode::Enter
KeyEnter == MoveTask(1)

\* move_task(-1): no key of run_app issues it, a caller of the public method does
MoveBackward == MoveTask(-1)

\* KanbanBoard::save_to_file; fs::write succeeds
SaveToFile ==
    /\ BoardRuns
    /\ file' = ToJson(tasks)
    /\ savedTasks' = Some(tasks)
    /\ Log("save_to_file")
    /\ UNCHANGED <<boardVars, pc, buildVars, appVars, csvVars>>

\* KanbanBoard::save_to_file; fs::write fails (reported on stderr): the file is
\* untouched, or was truncated and only partly written
SaveFails ==
    /\ BoardRuns
    /\ \E f \in {file, Garbage} :
          /\ file' = f
          /\ savedTasks' = IF f = file THEN savedTasks ELSE None
    /\ Log("save_failed")
    /\ UNCHANGED <<boardVars, pc, buildVars, appVars, csvVars>>

\* KanbanBoard::load_from_file; the file is absent, or it is read
LoadFromFile ==
    /\ BoardRuns
    /\ tasks' = IF file.kind = "absent" THEN tasks ELSE LoadedTasks(file)
    /\ Log("load_from_file")
    /\ UNCHANGED <<selected_status, selected_task, file, pc, buildVars, appVars,
                   savedTasks, csvVars>>

\* KanbanBoard::load_from_file; the file exists and fs::read_to_string fails
LoadUnreadable ==
    /\ BoardRuns
    /\ file.kind # "absent"
    /\ Log("load_unreadable")
    /\ UNCHANGED <<boardVars, file, pc, buildVars, appVars, savedTasks, csvVars>>

\* the process ends and the program is started again: KanbanBoard::new()
Restart ==
    /\ program = "board"
    /\ lastOp # "new"
    /\ tasks' = <<>>
    /\ selected_status' = 0
    /\ selected_task' = 0
    /\ pc' = "run"
    /\ lastOp' = "new"
    /\ scenario' = 0
    /\ prevTasks' = <<>>
    /\ UNCHANGED <<file, buildVars, appVars, savedTasks, csvVars>>

NextBoard ==
    \/ KeyQ
    \/ AddTask
    \/ PromptFailed
    \/ KeyLeft
    \/ KeyRight
    \/ KeyUp
    \/ KeyDown
    \/ KeyEnter
    \/ MoveBackward

\* the key events run_app handles
NextRunApp ==
    \/ KeyQ
    \/ AddTask
    \/ PromptFailed
    \/ KeyLeft
    \/ KeyRight
    \/ KeyUp
    \/ KeyDown
    \/ KeyEnter

NextPersist ==
    \/ AddTask
    \/ KeyLeft
    \/ KeyRight
    \/ KeyEnter
    \/ MoveBackward
    \/ SaveToFile
    \/ SaveFails
    \/ LoadFromFile
    \/ LoadUnreadable
    \/ Restart

\* ------------------------------------------------------------- KanbanApp
\* Config::default()
DefaultConfig == <<"Todo", "Doing", "Done">>

\* KanbanApp::load_config(path).unwrap_or_default(): the default when the file is
\* absent, unreadable or unparsable, else the list the file holds
Configs == {DefaultConfig} \cup UNION {[1..n -> ColumnNames] : n \in 0..MaxColumns}

\* KanbanApp::new
InitApp ==
    /\ program = "app"
    /\ \E cfg \in Configs :
          columns = [i \in 1..Len(cfg) |-> [name |-> cfg[i], tasks |-> <<>>]]
    /\ selected_column = 0
    /\ app_selected_task = None
    /\ pc = "run"
    /\ overflow_checks = "unobserved"
    /\ tasks = <<>>
    /\ selected_status = 0
    /\ selected_task = 0
    /\ file = NoFile
    /\ lastOp = "new"
    /\ scenario = 0
    /\ prevTasks = <<>>
    /\ savedTasks = None
    /\ csv = NoCsv
    /\ loaded = None

AppRuns == program = "app" /\ pc = "run"

AppFrame == UNCHANGED <<boardVars, file, envVars, savedTasks, csvVars>>

AppTaskCount == LET n[i \in 0..Len(columns)] ==
                        IF i = 0 THEN 0 ELSE n[i - 1] + Len(columns[i].tasks)
                IN n[Len(columns)]

\* Uuid::new_v4(): 122 random bits, modelled as an id no task holds
FreshUuid == AppTaskCount + 1

\* KanbanApp::previous_column
PreviousColumn ==
    /\ AppRuns
    /\ selected_column' = IF selected_column > 0 THEN selected_column - 1
                          ELSE selected_column
    /\ Log("previous_column")
    /\ UNCHANGED <<columns, app_selected_task, pc, overflow_checks>>
    /\ AppFrame

\* a bug: the guard compares with len instead of len - 1
NextColumnGuardOffByOne(sel, len) == UsizeLess(sel, len)

NextColumnGuard(sel, len) == UsizeLess(sel, UsizeSub(len, 1))

\* KanbanApp::next_column: columns.len() - 1 is usize arithmetic; wrapped around
\* it is usize::MAX, which no selected_column reaches
NextColumn ==
    /\ AppRuns
    /\ IF UsizeSubWraps(Len(columns), 1)
       THEN \E profile \in Profiles(overflow_checks) :
               /\ overflow_checks' = profile
               /\ IF profile = "on"
                  THEN pc' = "panicked" /\ UNCHANGED selected_column
                  ELSE /\ UNCHANGED pc
                       /\ selected_column < MaxSelected
                       /\ selected_column' = selected_column + 1
       ELSE /\ UNCHANGED <<pc, overflow_checks>>
            /\ selected_column' = IF NextColumnGuard(selected_column, Len(columns))
                                  THEN selected_column + 1 ELSE selected_column
    /\ Log("next_column")
    /\ UNCHANGED <<columns, app_selected_task>>
    /\ AppFrame

\* KanbanApp::previous_task
PreviousTask ==
    /\ AppRuns
    /\ app_selected_task' =
          IF app_selected_task # None /\ app_selected_task[1] > 0
          THEN Some(app_selected_task[1] - 1) ELSE app_selected_task
    /\ Log("previous_task")
    /\ UNCHANGED <<columns, selected_column, pc, overflow_checks>>
    /\ AppFrame

\* KanbanApp::next_task: columns[selected_column] is bounds-checked and
\* tasks.len() - 1 is usize arithmetic, both only when a task is selected
NextTask ==
    /\ AppRuns
    /\ IF app_selected_task = None
       THEN UNCHANGED <<app_selected_task, pc, overflow_checks>>
       ELSE IF selected_column >= Len(columns)
       THEN pc' = "panicked" /\ UNCHANGED <<app_selected_task, overflow_checks>>
       ELSE LET len == Len(columns[selected_column + 1].tasks) IN
            IF UsizeSubWraps(len, 1)
            THEN \E profile \in Profiles(overflow_checks) :
                    /\ overflow_checks' = profile
                    /\ IF profile = "on"
                       THEN pc' = "panicked" /\ UNCHANGED app_selected_task
                       ELSE /\ UNCHANGED pc
                            /\ app_selected_task[1] < MaxSelected
                            /\ app_selected_task' = Some(app_selected_task[1] + 1)
            ELSE /\ UNCHANGED <<pc, overflow_checks>>
                 /\ app_selected_task' =
                       IF UsizeLess(app_selected_task[1], UsizeSub(len, 1))
                       THEN Some(app_selected_task[1] + 1) ELSE app_selected_task
    /\ Log("next_task")
    /\ UNCHANGED <<columns, selected_column>>
    /\ AppFrame

\* due_date.parse::<chrono::NaiveDate>().ok()
ParsesAsDate(text) == text # ""

\* Task::new(&title, Some(description), tags, due_date)
AppNewTask(title, description, tags, due_date, now) ==
    [id |-> FreshUuid, title |-> title, description |-> Some(description),
     tags |-> tags, created_at |-> now, due_date |-> due_date]

\* self.columns[self.selected_column].tasks.push(task)
PushTask(cols, sel, task) ==
    [cols EXCEPT ![sel + 1].tasks = Append(cols[sel + 1].tasks, task)]

\* KanbanApp::add_task.  `midnight` is what the time zone makes of 00:00:00 on
\* the typed date: LocalResult::unwrap panics unless it is a single instant.
AppAddTask ==
    /\ AppRuns
    /\ AppTaskCount < MaxAppTasks
    /\ \E title \in Titles, description \in AppDescriptions, tags \in TagLists,
          due \in DueInputs, midnight \in {"single", "none"}, now \in Instants :
          LET due_date == IF ParsesAsDate(due) THEN Some(due) ELSE None IN
          IF (ParsesAsDate(due) /\ midnight # "single")
             \/ selected_column >= Len(columns)
          THEN pc' = "panicked" /\ UNCHANGED columns
          ELSE /\ UNCHANGED pc
               /\ columns' = PushTask(columns, selected_column,
                                AppNewTask(title, description, tags, due_date, now))
    /\ Log("app_add_task")
    /\ UNCHANGED <<selected_column, app_selected_task, overflow_checks>>
    /\ AppFrame

\* KanbanApp::edit_task: the body is empty
EditTask ==
    /\ AppRuns
    /\ Log("edit_task")
    /\ UNCHANGED <<appVars, pc, overflow_checks>>
    /\ AppFrame

\* KanbanApp::move_task: the body is empty
AppMoveTask ==
    /\ AppRuns
    /\ Log("app_move_task")
    /\ UNCHANGED <<appVars, pc, overflow_checks>>
    /\ AppFrame

\* KanbanApp::run, KeyCode::Char('q'): the loop breaks, run restores the
\* terminal and returns, and main returns with it; nothing is written
AppQuit ==
    /\ AppRuns
    /\ pc' = "quit"
    /\ Log("app_quit")
    /\ UNCHANGED <<appVars, overflow_checks>>
    /\ AppFrame

NextApp ==
    \/ AppQuit
    \/ PreviousColumn
    \/ NextColumn
    \/ PreviousTask
    \/ NextTask
    \/ AppAddTask
    \/ EditTask
    \/ AppMoveTask

\* ------------------------------------------------------------- .kanban.csv
\* A text is modelled as a record [text, of]: the kind of thing it spells and
\* the value spelled, so that a parser fails on the texts of another kind.
Str(s) == [text |-> "str", of |-> s]

\* Uuid's Display: the hyphenated form
UuidToString(id) == [text |-> "uuid", of |-> id]

\* Uuid::parse_str
UuidParseStr(field) == IF field.text = "uuid" THEN Some(field.of) ELSE None

\* DateTime<Utc>'s Display: date, time with its fraction, and "UTC"
DateTimeToString(t) == [text |-> "datetime", of |-> [instant |-> t, zone |-> "UTC"]]

\* str::parse::<DateTime<Utc>>: a date and a time followed by Z, UTC or an offset
DateTimeParse(field) ==
    IF field.text = "datetime" /\ field.of.zone \in {"Z", "UTC", "+00:00"}
    THEN Some(field.of.instant) ELSE None

\* task.tags.join(", "), spelled as the pieces str::split(", ") finds in it:
\* the join of no tag is the empty text, which splits into one empty piece
JoinTags(tags) == [text |-> "pieces", of |-> IF tags = <<>> THEN <<"">> ELSE tags]

\* str::split(", ").map(String::from).collect()
SplitTags(field) == IF field.text = "pieces" THEN field.of ELSE <<field.of>>

\* task.description.clone().unwrap_or_default()
UnwrapOrDefault(description) == IF description = None THEN "" ELSE description[1]

CsvHeader == <<"id", "status", "tag", "description", "created_at", "due_date">>

\* the record save_to_csv writes for a task of a column
CsvRecord(column, task) ==
    <<UuidToString(task.id),
      Str(column.name),
      JoinTags(task.tags),
      Str(UnwrapOrDefault(task.description)),
      DateTimeToString(task.created_at),
      IF task.due_date = None THEN Str("") ELSE DateTimeToString(task.due_date[1])>>

\* the records of save_to_csv: column by column, task by task
CsvRecords(cols) ==
    LET rows[c \in 0..Len(cols)] ==
            IF c = 0 THEN <<>>
            ELSE rows[c - 1] \o [i \in 1..Len(cols[c].tasks) |->
                                    CsvRecord(cols[c], cols[c].tasks[i])]
    IN rows[Len(cols)]

\* record.get(i).unwrap(): field i of a record, 0-based
Get(record, i) == record[i + 1]

\* the Task load_from_csv builds from a record whose id and created_at parse
TaskOfRecord(record) ==
    [id |-> UuidParseStr(Get(record, 0))[1],
     title |-> Get(record, 3).of,
     description |-> Some(Get(record, 3).of),
     tags |-> SplitTags(Get(record, 2)),
     created_at |-> DateTimeParse(Get(record, 4))[1],
     due_date |-> DateTimeParse(Get(record, 5))]

\* columns.iter_mut().find(|c| c.name == column_name): push there, else a new column
Grouped(cols, column_name, task) ==
    IF \E c \in 1..Len(cols) : cols[c].name = column_name
    THEN LET first == CHOOSE c \in 1..Len(cols) :
                         /\ cols[c].name = column_name
                         /\ \A b \in 1..(c - 1) : cols[b].name # column_name
         IN [cols EXCEPT ![first].tasks = Append(cols[first].tasks, task)]
    ELSE Append(cols, [name |-> column_name, tasks |-> <<task>>])

\* what load_from_csv does with one record: the reader rejects a record that
\* has not the header's length and ? returns the error, as it does when the id
\* does not parse; unwrap panics when created_at does not parse
RecordOutcome(record) ==
    IF Len(record) # Len(CsvHeader) THEN "Err"
    ELSE IF UuidParseStr(Get(record, 0)) = None THEN "Err"
    ELSE IF DateTimeParse(Get(record, 4)) = None THEN "panic"
    ELSE "Ok"

\* how load_from_csv ends on a file that exists: as its first bad record decides
LoadOutcome(rows) ==
    LET bad == {i \in 1..Len(rows) : RecordOutcome(rows[i]) # "Ok"} IN
    IF bad = {} THEN "Ok"
    ELSE RecordOutcome(rows[CHOOSE i \in bad : \A j \in bad : i <= j])

\* the columns load_from_csv returns when every record parses
LoadedColumns(rows) ==
    LET cols[i \in 0..Len(rows)] ==
            IF i = 0 THEN <<>>
            ELSE Grouped(cols[i - 1], Get(rows[i], 1).of, TaskOfRecord(rows[i]))
    IN cols[Len(rows)]

\* the boards the functions are applied to: MaxAppTasks tasks at most, each in
\* any column, with or without a description and a due date
OptDescriptions == {None, Some("d1")}
OptDueDates == {None, Some([secs |-> 200, nanos |-> 0])}
Placements(cfg) ==
    UNION {[1..k -> (1..Len(cfg)) \X OptDescriptions \X OptDueDates] :
              k \in 0..MaxAppTasks}

BoardOf(cfg, placement) ==
    LET board[i \in 0..Len(placement)] ==
            IF i = 0 THEN [c \in 1..Len(cfg) |-> [name |-> cfg[c], tasks |-> <<>>]]
            ELSE PushTask(board[i - 1], placement[i][1] - 1,
                          [id |-> i, title |-> "t1", description |-> placement[i][2],
                           tags |-> <<"doc">>, created_at |-> [secs |-> 100, nanos |-> 5],
                           due_date |-> placement[i][3]])
    IN board[Len(placement)]

InitCsv ==
    /\ program = "app"
    /\ \E cfg \in Configs : \E placement \in Placements(cfg) :
          columns = BoardOf(cfg, placement)
    /\ selected_column = 0
    /\ app_selected_task = None
    /\ pc = "run"
    /\ overflow_checks = "unobserved"
    /\ tasks = <<>>
    /\ selected_status = 0
    /\ selected_task = 0
    /\ file = NoFile
    /\ lastOp = "new"
    /\ scenario = 0
    /\ prevTasks = <<>>
    /\ savedTasks = None
    /\ csv = NoCsv
    /\ loaded = None

\* KanbanApp::save_to_csv
SaveToCsv ==
    /\ AppRuns
    /\ csv' = [kind |-> "csv", header |-> CsvHeader, rows |-> CsvRecords(columns)]
    /\ Log("save_to_csv")
    /\ UNCHANGED <<appVars, pc, overflow_checks, loaded>>
    /\ UNCHANGED <<boardVars, file, envVars, savedTasks>>

\* KanbanApp::load_from_csv: the reader takes the first record for the header
LoadFromCsv ==
    /\ AppRuns
    /\ IF csv.kind = "absent"
       THEN loaded' = Some([kind |-> "Ok", columns |-> <<>>]) /\ UNCHANGED pc
       ELSE LET outcome == LoadOutcome(csv.rows) IN
            /\ pc' = IF outcome = "panic" THEN "panicked" ELSE pc
            /\ loaded' = IF outcome = "Ok"
                         THEN Some([kind |-> "Ok", columns |-> LoadedColumns(csv.rows)])
                         ELSE IF outcome = "Err"
                         THEN Some([kind |-> "Err", columns |-> <<>>])
                         ELSE loaded
    /\ Log("load_from_csv")
    /\ UNCHANGED <<appVars, overflow_checks, csv>>
    /\ UNCHANGED <<boardVars, file, envVars, savedTasks>>

NextCsv ==
    \/ SaveToCsv
    \/ LoadFromCsv

\* ------------------------------------------------------------- specifications
Init == InitBoard \/ InitApp

Next == NextBoard \/ NextApp

\* either binary, without the persistence of KanbanBoard
Spec == Init /\ [][Next]_vars

\* KanbanBoard with its persistence
SpecPersist == InitPersist /\ [][NextPersist]_vars
SpecCsv == InitCsv /\ [][NextCsv]_vars

\* KanbanBoard driven by run_app alone
SpecRunApp == InitBoard /\ [][NextRunApp]_vars

\* ------------------------------------------------------------- claims
Range(f) == {f[i] : i \in DOMAIN f}

HasStatus(ts, status) == \E i \in 1..Len(ts) : ts[i].status = status

IsMove(op) == op \in {"move_forward", "move_backward"}

\* the task the cursor (sel, seltask) designates in ts, as Option<Task>
CursorTask(ts, sel, seltask) ==
    LET column == GetTasksByStatus(ts, StatusAt(sel)) IN
    IF seltask < Len(column) THEN Some(column[seltask + 1]) ELSE None

\* C1: over add_task calls and Left/Right events, every add_task call adds one
\* task and nothing else changes the number of tasks (so the number of tasks is
\* the number of add_task calls), and the task added has the status of the
\* column selected when it is created.
C1_AddedToSelectedColumn ==
    [][lastOp' \in {"add_task", "key_left", "key_right"} =>
          /\ Len(tasks') = Len(tasks) + (IF lastOp' = "add_task" THEN 1 ELSE 0)
          /\ lastOp' = "add_task" =>
                tasks'[Len(tasks')].status = StatusAt(selected_status)]_vars

\* C2: every task's status is one of TODO/DOING/DONE, and get_tasks_by_status
\* returns the task for exactly one column name, the one equal to its status.
C2_StatusIsColumn ==
    \A i \in 1..Len(tasks) :
        /\ tasks[i].status \in Range(statuses)
        /\ {s \in Range(statuses) : tasks[i] \in Range(GetTasksByStatus(tasks, s))}
              = {tasks[i].status}

C2_Witness ==
    /\ lastOp = "move_backward"
    /\ prevTasks # tasks
    /\ HasStatus(tasks, "TODO") /\ HasStatus(tasks, "DOING") /\ HasStatus(tasks, "DONE")

\* C3: move_task(+1) immediately followed by move_task(-1), on a task selected
\* in a non-boundary column, leaves that task with its original status.
C3_ForwardBackwardRoundTrip ==
    [][(/\ lastOp = "move_forward"
        /\ lastOp' = "move_backward"
        /\ selected_status > 0 /\ selected_status < Len(statuses) - 1
        /\ CursorTask(prevTasks, selected_status, selected_task) # None)
       => LET t == CursorTask(prevTasks, selected_status, selected_task)[1] IN
          \E i \in 1..Len(tasks') :
              tasks'[i].id = t.id /\ tasks'[i].status = t.status]_vars

\* C4: move_task(+1) with the last column selected and move_task(-1) with the
\* first column selected change nothing: neither a task, nor the order of the
\* tasks, nor the selection indices.
C4_OutOfRangeMoveIsNoOp ==
    [][(\/ lastOp' = "move_forward" /\ selected_status = Len(statuses) - 1
        \/ lastOp' = "move_backward" /\ selected_status = 0)
       => UNCHANGED boardVars]_vars

C4_Witness ==
    /\ lastOp = "move_forward"
    /\ selected_status = Len(statuses) - 1
    /\ HasStatus(prevTasks, "DONE")
    /\ Len(tasks) > 1

\* C5: the selected column index of either board stays within
\* [0, number of columns - 1] whenever there is a column.
C5_SelectedColumnInRange ==
    /\ selected_status \in 0..(Len(statuses) - 1)
    /\ Len(columns) > 0 => selected_column \in 0..(Len(columns) - 1)

C5_Witness ==
    /\ lastOp = "next_column"
    /\ Len(columns) > 1
    /\ selected_column = Len(columns) - 1

\* C6: from the empty board with the first column selected: after add_task the
\* first column holds one task; after one move_task(+1) the task is in the
\* second column and the first is empty; after a second it is in the last
\* column; a third changes nothing.
C6_Scenario ==
    program = "board" =>
        /\ scenario = 1 =>
              /\ Len(tasks) = 1
              /\ Len(GetTasksByStatus(tasks, StatusAt(0))) = 1
        /\ scenario = 2 =>
              /\ tasks[1].status = StatusAt(1)
              /\ GetTasksByStatus(tasks, StatusAt(0)) = <<>>
        /\ scenario = 3 => tasks[1].status = StatusAt(Len(statuses) - 1)
        /\ scenario = 4 => tasks = prevTasks

\* C7: KanbanApp.selected_task is None when the selected column is empty, and
\* otherwise Some(i) with i an index of the column's tasks.
C7_SelectedTaskInRange ==
    (program = "app" /\ selected_column < Len(columns)) =>
        LET len == Len(columns[selected_column + 1].tasks) IN
        IF len = 0 THEN app_selected_task = None
        ELSE /\ app_selected_task # None
             /\ app_selected_task[1] \in 0..(len - 1)

\* C8: Down on an empty column, next_column and add_task of a KanbanApp without
\* columns, and move_task on a column without task neither panic nor change
\* the board.
C8_InvalidPreconditionIsNoOp ==
    [][(\/ /\ lastOp' = "key_down"
           /\ GetTasksByStatus(tasks, StatusAt(selected_status)) = <<>>
        \/ /\ lastOp' \in {"next_column", "app_add_task"}
           /\ Len(columns) = 0
        \/ /\ IsMove(lastOp')
           /\ ~HasStatus(tasks, StatusAt(selected_status)))
       => /\ pc' = "run"
          /\ UNCHANGED <<boardVars, appVars>>]_vars

\* C9: load_from_file, on a file that holds what the last save_to_file wrote,
\* makes the task list the one that was saved: same tasks, same fields, same
\* order.
C9_SaveLoadRoundTrip ==
    [][(lastOp' = "load_from_file" /\ savedTasks # None)
       => tasks' = savedTasks[1]]_vars

C9_Witness ==
    /\ lastOp = "load_from_file"
    /\ savedTasks # None
    /\ Len(tasks) > 1
    /\ HasStatus(tasks, "DOING")
    /\ tasks = savedTasks[1]

\* C10: no two tasks of the board share an id, add_task gives the new task an
\* id no task of the board holds, and no operation changes the id of a task.
IdsUnique ==
    \A i, j \in 1..Len(tasks) : i # j => tasks[i].id # tasks[j].id

C10_IdsUniqueAndStable ==
    /\ []IdsUnique
    /\ [][/\ lastOp' = "add_task" =>
                \A i \in 1..Len(tasks) : tasks[i].id # tasks'[Len(tasks')].id
          /\ \A i \in (DOMAIN tasks) \cap (DOMAIN tasks') :
                tasks'[i].id = tasks[i].id]_vars

C10_Witness ==
    /\ lastOp = "add_task"
    /\ Len(tasks) > 1
    /\ file.kind = "json"
    /\ HasStatus(tasks, "DOING")

\* 0-based index of a column name in statuses
ColumnIndex(status) == (CHOOSE k \in 1..Len(statuses) : statuses[k] = status) - 1

\* positions of board.tasks whose status an operation changed
Moved == {i \in (DOMAIN tasks) \cap (DOMAIN tasks') : tasks'[i].status # tasks[i].status}

WithoutId(ts, id) == SelectSeq(ts, LAMBDA t : t.id # id)

\* C13: the task whose status move_task changes is the one the cursor
\* (selected_status, selected_task) designates, and no other; when the cursor
\* designates no task, move_task changes nothing.
C13_MoveActsOnSelectedTask ==
    [][IsMove(lastOp') =>
          LET cursor == CursorTask(tasks, selected_status, selected_task) IN
          IF cursor = None THEN tasks' = tasks
          ELSE /\ Len(tasks') = Len(tasks)
               /\ \A i \in Moved : tasks[i].id = cursor[1].id]_vars

\* C14: a task move_task has moved is the last element of its destination
\* column's list, and the other tasks keep their relative order in every column.
C14_MovedTaskIsAppended ==
    [][(IsMove(lastOp') /\ Moved # {}) =>
          \A i \in Moved :
             LET destination == GetTasksByStatus(tasks', tasks'[i].status) IN
             /\ destination[Len(destination)].id = tasks[i].id
             /\ \A s \in Range(statuses) :
                   WithoutId(GetTasksByStatus(tasks', s), tasks[i].id)
                      = WithoutId(GetTasksByStatus(tasks, s), tasks[i].id)]_vars

\* C15: after move_task has moved a task, the selected column is the task's
\* destination column and the selected task index is the task's index there,
\* the last one.
C15_SelectionFollowsMovedTask ==
    [][(IsMove(lastOp') /\ Moved # {}) =>
          \A i \in Moved :
             /\ selected_status' = ColumnIndex(tasks'[i].status)
             /\ selected_task' = Len(GetTasksByStatus(tasks', tasks'[i].status)) - 1]_vars

\* C16: when Left or Right changes the selected column, the selected task index
\* becomes 0 if the new column holds a task, and designates no task if it holds
\* none.
C16_ColumnChangeResetsTask ==
    [][(lastOp' \in {"key_left", "key_right"} /\ selected_status' # selected_status) =>
          IF HasStatus(tasks', StatusAt(selected_status'))
          THEN selected_task' = 0
          ELSE CursorTask(tasks', selected_status', selected_task') = None]_vars

\* C17: with a task selected (index i of the n tasks of a non-empty selected
\* column), Up makes the index i - 1, or leaves it when i = 0; Down makes it
\* i + 1, or leaves it when i = n - 1; neither changes a task or the selected
\* column.
C17_TaskNavigationDoesNotWrap ==
    [][LET n == Len(GetTasksByStatus(tasks, StatusAt(selected_status))) IN
       (lastOp' \in {"key_up", "key_down"} /\ n > 0 /\ selected_task \in 0..(n - 1)) =>
          /\ lastOp' = "key_up" =>
                selected_task' = IF selected_task = 0 THEN 0 ELSE selected_task - 1
          /\ lastOp' = "key_down" =>
                selected_task' = IF selected_task = n - 1 THEN selected_task
                                 ELSE selected_task + 1
          /\ UNCHANGED <<tasks, selected_status, pc>>]_vars

C17_Witness ==
    /\ lastOp = "key_down"
    /\ Len(GetTasksByStatus(tasks, StatusAt(selected_status))) = Len(tasks)
    /\ Len(tasks) > 1
    /\ selected_task = Len(tasks) - 1

\* C20: move_task(d) changes the status of at most one task, whose column index
\* changes by d; it changes neither the number nor the order of the tasks, no
\* other field of a task, and neither selection index.
C20_MoveTaskFrame ==
    [][IsMove(lastOp') =>
          LET d == IF lastOp' = "move_forward" THEN 1 ELSE -1 IN
          /\ Len(tasks') = Len(tasks)
          /\ Cardinality(Moved) <= 1
          /\ \A i \in Moved :
                ColumnIndex(tasks'[i].status) = ColumnIndex(tasks[i].status) + d
          /\ \A i \in 1..Len(tasks) :
                [tasks'[i] EXCEPT !.status = tasks[i].status] = tasks[i]
          /\ UNCHANGED <<selected_status, selected_task>>]_vars

C20_Witness ==
    /\ lastOp = "move_backward"
    /\ Len(tasks) > 1
    /\ \E i \in 1..Len(tasks) : tasks[i].status # prevTasks[i].status
    /\ Len(GetTasksByStatus(prevTasks, StatusAt(selected_status))) > 1

\* C19: load_from_file never aborts and never changes selected_status or
\* selected_task; a file whose content does not parse as a task list leaves the
\* board with no task, and an absent file leaves the tasks as they are, so the
\* board of new() stays empty.
C19_LoadNeverAborts ==
    [][lastOp' \in {"load_from_file", "load_unreadable"} =>
          /\ pc' = "run"
          /\ UNCHANGED <<selected_status, selected_task>>
          /\ (lastOp' = "load_from_file" /\ file = Garbage) => tasks' = <<>>
          /\ file = NoFile => tasks' = tasks
          /\ (file = NoFile /\ lastOp = "new") => tasks' = <<>>]_vars

C19_Witness ==
    /\ lastOp = "load_from_file"
    /\ file = Garbage
    /\ tasks = <<>>
    /\ selected_status = 1
    /\ pc = "run"

\* the tasks the program holds: board.tasks, or the tasks of every column
HeldTasks ==
    IF program = "board" THEN tasks
    ELSE LET all[i \in 0..Len(columns)] ==
                 IF i = 0 THEN <<>> ELSE all[i - 1] \o columns[i].tasks
         IN all[Len(columns)]

\* C11: once the quit command has been handled and the loop has exited, the
\* board has been saved: the file holds the tasks the program held at the quit.
C11_QuitTriggersFinalSave ==
    (pc = "quit" /\ HeldTasks # <<>>) =>
        IF program = "board" THEN file = ToJson(tasks)
        ELSE file.kind = "json" /\ Len(file.items) = Len(HeldTasks)

\* C18: KanbanApp::add_task on a board with at least one column appends exactly
\* one task at the end of the selected column's list and changes nothing else:
\* no other column, no task already there, neither selection.
C18_AppAddTaskAppendsOne ==
    [][(lastOp' = "app_add_task" /\ Len(columns) >= 1) =>
          /\ Len(columns') = Len(columns)
          /\ \A c \in 1..Len(columns) :
                /\ columns'[c].name = columns[c].name
                /\ IF c = selected_column + 1
                   THEN /\ Len(columns'[c].tasks) = Len(columns[c].tasks) + 1
                        /\ SubSeq(columns'[c].tasks, 1, Len(columns[c].tasks))
                              = columns[c].tasks
                   ELSE columns'[c].tasks = columns[c].tasks
          /\ UNCHANGED <<selected_column, app_selected_task>>]_vars

\* the id, status and description of every task of a list of columns
Triples(cols) ==
    UNION {{<<cols[c].tasks[i].id, cols[c].name, cols[c].tasks[i].description>> :
               i \in 1..Len(cols[c].tasks)} : c \in 1..Len(cols)}

CountTasks(cols) ==
    LET n[c \in 0..Len(cols)] == IF c = 0 THEN 0 ELSE n[c - 1] + Len(cols[c].tasks)
    IN n[Len(cols)]

C21_ColumnIndexNeverDecreases ==
    [][/\ Len(tasks') >= Len(tasks)
       /\ \A i \in 1..Len(tasks) :
             /\ tasks'[i].id = tasks[i].id
             /\ ColumnIndex(tasks'[i].status) >= ColumnIndex(tasks[i].status)
             /\ tasks[i].status = "DONE" => tasks'[i].status = "DONE"]_vars

C21_Witness ==
    /\ lastOp = "move_forward"
    /\ selected_status = 1
    /\ \E i \in 1..Len(tasks) :
          prevTasks[i].status = "DOING" /\ tasks[i].status = "DONE"
    /\ \E i \in 1..Len(tasks) :
          prevTasks[i].status = "DONE" /\ tasks[i].status = "DONE"

====
